---- MODULE Spec2Model ----
(***************************************************************************)
(* A model of backupnow/__init__.py: the execution coordinator of class    *)
(* BackupNow (start_job, run_job_sync, stop_sync), the periodic check      *)
(* (on_timer, run_tasks) and the orchestrator cycle (main).                *)
(*                                                                         *)
(* Every statement of a method that reads or writes shared state of the    *)
(* BackupNow instance (self.threads, self.busy, self.run_level, a Thread   *)
(* handle) is one step, so that threads of control interleave between      *)
(* statements as CPython threads do.                                       *)
(***************************************************************************)
EXTENDS Integers, Sequences, FiniteSets, TLC

\* ------------------------------------------------------------------ bounds
\* Thread objects that start_job may construct in one behaviour.
MaxThreads == 3
\* Threads of control that call the coordinator's API concurrently.
NumCallers == 2

\* Threads of control that call on_timer.
NumTimerCallers == 2
\* Invocations of main (process runs) in one behaviour.
MaxCycles == 2
\* The last day on which main is invoked (days count from 0).
MaxDay == 1
\* The most jobs of a validated jobs mapping.
MaxJobs == 2
\* The most operations of a validated job.
MaxOperations == 2

\* ------------------------------------------------------- program constants
\* stop_sync: wait_time = 1
InitialWaitTime == 1
\* stop_sync: max_wait_time = 20
MaxWaitTime == 20
\* stop_sync: wait_time += 2
WaitIncrement == 2

JobNames == {"alpha", "beta"}
ThreadIds == 1..MaxThreads
Callers == 1..NumCallers
\* The thread of control that owns the BackupNow instance (a frontend).
MainCaller == 1
\* Python's None for a thread handle.
NoThread == 0

TimerCallers == 1..NumTimerCallers
\* main: enable_multithreading = False
enable_multithreading == FALSE
\* BackupNow.default_backup_name
default_backup_name == "default_backup"
\* BackupNow.TIMER_JOB_NAME
TIMER_JOB_NAME == "timer"
\* The on_timer caller that is the periodic-check loop.
LoopCaller == 1

VARIABLES
    threads,    \* self.threads: job name -> Thread handle
    tstate,     \* per Thread handle: "free" (not constructed), "created",
                \* "running", "called" (progress_cb has returned), "dead"
    tname,      \* per Thread handle: the job_name its target was given
    cb_log,     \* per Thread handle: the events its progress_cb received
    run_level,  \* self.run_level
    call,       \* per caller: the frame of its start_job call
    stop,       \* the frame of the stop_sync call
    busy,       \* self.busy
    error,      \* self.error
    ot,         \* per on_timer caller: the frame of its on_timer call
    file,       \* the settings file on disk
    settings,   \* the settings document in memory (backupnow.bnsettings)
    tm,         \* self.tm
    now,        \* the clock: datetime.now(UTC) of the running process
    m,          \* the frame of main and of the JobsWatcher it drives
    history,    \* what the cycles so far have dispatched and run
    vj,         \* the frame of a validate_jobs call
    ld          \* the frame of a load call

coordVars == <<threads, tstate, tname, cb_log, run_level, call, stop>>
timerVars == <<busy, error, ot>>
mainVars == <<file, settings, now, m, history, vj, ld>>
vars == <<threads, tstate, tname, cb_log, run_level, call, stop,
          busy, error, ot, file, settings, tm, now, m, history, vj, ld>>

\* ----------------------------------------------------------------- helpers
\* `name in self.threads`
InRegistry(name) == name \in DOMAIN threads

\* `self.threads[name] = thread`
RegistryPut(reg, name, t) ==
    [k \in (DOMAIN reg) \cup {name} |-> IF k = name THEN t ELSE reg[k]]

\* `del self.threads[name]`
RegistryDel(reg, name) ==
    [k \in (DOMAIN reg) \ {name} |-> reg[k]]

\* threading.Thread.is_alive(): true from start() until run() has ended.
is_alive(t) == tstate[t] \in {"running", "called"}

\* The event start_job returns when the name maps to a live thread.
AlreadyRunningEvent(name) ==
    [error |-> name \o " is already running.", status |-> "done"]

\* event = {}
EmptyEvent == [k \in {} |-> ""]

\* A Thread object that has not been constructed yet.
FreeThreads == {t \in ThreadIds : tstate[t] = "free"}
NewThread == CHOOSE t \in FreeThreads : \A u \in FreeThreads : t <= u

\* The frame of a start_job call: its position, its arguments and locals.
\* Two fields record what the call has seen: found is the branch taken at
\* lines 364-366 ("absent": the name was not registered, "stale": its handle
\* was not alive, "live": its handle was alive) and level is self.run_level
\* when the call was made.  progress_cb tells whether the argument was
\* given.
IdleFrame == [pc |-> "idle", job_name |-> "", progress_cb |-> TRUE,
              thread |-> NoThread, event |-> EmptyEvent, found |-> "",
              level |-> 1]

IdleStop == [pc |-> "idle", keys |-> {}, key |-> "", alive_keys |-> {},
             wait_time |-> 0]

\* ------------------------------------------------- settings and timers
\* A Python dict is a function on its keys; the value of 'taskmanager',
\* which start() type-checks, carries its Python type.
EmptyDict == [k \in {} |-> 0]
DictPut(d, key, value) ==
    [k \in (DOMAIN d) \cup {key} |-> IF k = key THEN value ELSE d[k]]
DictDel(d, key) == [k \in (DOMAIN d) \ {key} |-> d[k]]
PyDict(items) == [type |-> "dict", items |-> items]
PyStr == [type |-> "str"]
PyNone == [type |-> "NoneType"]
\* isinstance(value, dict)
IsDict(value) == value.type = "dict"
\* bool(value) of a dict, of None or of a str (the str of the model is not
\* empty)
Truthy(value) ==
    IF IsDict(value) THEN DOMAIN value.items # {}
    ELSE value.type # "NoneType"

\* An instant is a day and an hour of that day, in UTC.
TimesOfDay == {9, 15}
Instants == [day : 0..MaxDay, hour : TimesOfDay]
Later(a, b) == a.day > b.day \/ (a.day = b.day /\ a.hour >= b.hour)
\* ran = None
NeverRan == [day |-> -1, hour |-> 0]

\* BackupNow.default_timerdict()
default_timerdict ==
    [time |-> "12:00", span |-> "daily", commands |-> <<"*">>,
     enabled |-> TRUE]

\* self.tm = None, or a TaskManager and its timers (name -> TMTimer)
NoTaskManager == [set |-> FALSE]
TaskManager(timers) == [set |-> TRUE, timers |-> timers]

\* The hour of a timer's 'time' string.
ParseTime(time) ==
    CASE time = "12:00" -> 12
      [] time = "08:00" -> 8
      [] OTHER -> 0

\* TMTimer from its dict and back: every field is kept, and 'ran' is a key
\* of the dict only when the timer has run.
TimerFromDict(d) ==
    [time |-> d.time, span |-> d.span, commands |-> d.commands,
     enabled |-> d.enabled,
     ran |-> IF "ran" \in DOMAIN d THEN d.ran ELSE NeverRan]

TimerToDict(t) ==
    IF t.ran = NeverRan
    THEN [time |-> t.time, span |-> t.span, commands |-> t.commands,
          enabled |-> t.enabled]
    ELSE [time |-> t.time, span |-> t.span, commands |-> t.commands,
          enabled |-> t.enabled, ran |-> t.ran]

\* TaskManager.from_dict(tmdict): a missing 'timers' gives no timers.
from_dict(tmdict) ==
    LET timers == IF "timers" \in DOMAIN tmdict THEN tmdict["timers"]
                  ELSE EmptyDict
    IN  TaskManager([name \in DOMAIN timers |-> TimerFromDict(timers[name])])

\* TaskManager.to_dict()
to_dict(taskmanager) ==
    DictPut(EmptyDict, "timers",
            [name \in DOMAIN taskmanager.timers |->
                TimerToDict(taskmanager.timers[name])])

\* TaskManager.get_ready_timers(at): the names of the enabled timers whose
\* time of day has passed at `at` and that have not run in the day of `at`.
get_ready_timers(taskmanager, at) ==
    {name \in DOMAIN taskmanager.timers :
        LET timer == taskmanager.timers[name]
        IN  /\ timer.enabled
            /\ ParseTime(timer.time) <= at.hour
            /\ (timer.ran = NeverRan \/ timer.ran.day < at.day)}

\* TaskManager.mark_ran(name, at), the only mutator of 'ran'; main and
\* BackupNow never call it.
mark_ran(taskmanager, name, at) ==
    TaskManager([taskmanager.timers EXCEPT ![name].ran = at])

NoFile == [exists |-> FALSE]
File(doc) == [exists |-> TRUE, doc |-> doc]

\* The frame of an on_timer call, and of the run_timer_sync loop that makes
\* it when thread is the Thread that runs the loop.
IdleTimerFrame == [pc |-> "idle", tmtasks |-> {}, thread |-> NoThread]

\* The frame of main: args.backup_name, timers (the names of the ready
\* timers), the watcher's bound timers and the jobs it has still to run,
\* and the number of core.save() calls of this process.
IdleMain == [pc |-> "idle", backup_name |-> "", timers |-> {},
             bound |-> {}, pending |-> {}, saves |-> 0, cycle |-> 0]

\* The frame of a load call.
IdleLoad == [pc |-> "idle"]

\* The frame of a validate_jobs call: results['errors'].
IdleValidate == [pc |-> "idle", errors |-> << >>]

\* self.threads = {} of a new instance, in a process that has constructed
\* no Thread.
NewInstance ==
    [threads |-> [k \in {} |-> NoThread],
     tstate |-> [t \in ThreadIds |-> "free"],
     tname |-> [t \in ThreadIds |-> ""]]

\* The registry and the Thread objects are those of inst.
ThreadsAre(inst) ==
    /\ threads = inst.threads
    /\ tstate = inst.tstate
    /\ tname = inst.tname

\* BackupNow.__init__, but for self.tm and self.threads
InitFlags ==
    /\ cb_log = [t \in ThreadIds |-> << >>]
    /\ run_level = 1
    /\ call = [c \in Callers |-> IdleFrame]
    /\ stop = IdleStop
    /\ busy = FALSE
    /\ error = "None"
    /\ ot = [p \in TimerCallers |-> IdleTimerFrame]

\* BackupNow.__init__, but for self.tm
InitCore ==
    /\ ThreadsAre(NewInstance)
    /\ InitFlags

\* A BackupNow instance whose start() has not been called; no main runs.
Init ==
    /\ InitCore
    /\ tm = NoTaskManager
    /\ file = NoFile
    /\ settings = EmptyDict
    /\ now = [day |-> 0, hour |-> 9]
    /\ m = IdleMain
    /\ history = << >>
    /\ vj = IdleValidate
    /\ ld = IdleLoad

\* ------------------------------------------------------------- start_job
SetFrame(c, f) == call' = [call EXCEPT ![c] = f]

Raised(f, exc) == [f EXCEPT !.pc = "raised", !.event = [exception |-> exc]]

\* Mutant of StartJobCall: `if not progress_cb: raise` is left out.
StartJobCall_Unchecked(c, name, has_cb) ==
    /\ call[c].pc \in {"idle", "returned"}
    /\ FreeThreads # {}
    /\ SetFrame(c, [pc |-> "L364", job_name |-> name, progress_cb |-> has_cb,
                    thread |-> NoThread, event |-> EmptyEvent, found |-> "",
                    level |-> run_level])
    /\ UNCHANGED <<threads, tstate, tname, cb_log, run_level, stop,
                 timerVars, mainVars, tm>>

\* def start_job(self, job_name, job, progress_cb=None): the call is made
\* and the progress_cb check, `thread = None` and `event = {}` run.
StartJobCall(c, name, has_cb) ==
    /\ call[c].pc \in {"idle", "returned"}
    /\ FreeThreads # {}
    /\ LET f == [pc |-> "L364", job_name |-> name, progress_cb |-> has_cb,
                 thread |-> NoThread, event |-> EmptyEvent, found |-> "",
                 level |-> run_level]
       IN  IF has_cb THEN SetFrame(c, f)
           ELSE SetFrame(c, Raised(f, "ValueError"))
    /\ UNCHANGED <<threads, tstate, tname, cb_log, run_level, stop,
                 timerVars, mainVars, tm>>

\* if job_name in self.threads:
StartJobL364(c) ==
    /\ call[c].pc = "L364"
    /\ IF InRegistry(call[c].job_name)
       THEN SetFrame(c, [call[c] EXCEPT !.pc = "L365"])
       ELSE SetFrame(c, [call[c] EXCEPT !.pc = "L371", !.found = "absent"])
    /\ UNCHANGED <<threads, tstate, tname, cb_log, run_level, stop,
                 timerVars, mainVars, tm>>

\* thread = self.threads[job_name]
StartJobL365(c) ==
    /\ call[c].pc = "L365"
    /\ IF InRegistry(call[c].job_name)
       THEN SetFrame(c, [call[c] EXCEPT !.pc = "L366",
                            !.thread = threads[call[c].job_name]])
       ELSE SetFrame(c, Raised(call[c], "KeyError"))
    /\ UNCHANGED <<threads, tstate, tname, cb_log, run_level, stop,
                 timerVars, mainVars, tm>>

\* Mutant of StartJobL366: the liveness test inverted, so that a live
\* handle is treated as an orphan.
StartJobL366_Inverted(c) ==
    /\ call[c].pc = "L366"
    /\ IF call[c].thread # NoThread /\ is_alive(call[c].thread)
       THEN SetFrame(c, [call[c] EXCEPT !.pc = "L369", !.found = "live"])
       ELSE SetFrame(c, [call[c] EXCEPT !.pc = "L371", !.found = "stale"])
    /\ UNCHANGED <<threads, tstate, tname, cb_log, run_level, stop,
                 timerVars, mainVars, tm>>

\* if not thread or not thread.is_alive():
StartJobL366(c) ==
    /\ call[c].pc = "L366"
    /\ IF call[c].thread = NoThread \/ ~is_alive(call[c].thread)
       THEN SetFrame(c, [call[c] EXCEPT !.pc = "L369", !.found = "stale"])
       ELSE SetFrame(c, [call[c] EXCEPT !.pc = "L371", !.found = "live"])
    /\ UNCHANGED <<threads, tstate, tname, cb_log, run_level, stop,
                 timerVars, mainVars, tm>>

\* Mutant of StartJobL369: the entry is deleted but `thread = None` is
\* forgotten, so the call goes on with the dead handle.
StartJobL369_KeepsThread(c) ==
    /\ call[c].pc = "L369"
    /\ InRegistry(call[c].job_name)
    /\ threads' = RegistryDel(threads, call[c].job_name)
    /\ SetFrame(c, [call[c] EXCEPT !.pc = "L371"])
    /\ UNCHANGED <<tstate, tname, cb_log, run_level, stop,
                 timerVars, mainVars, tm>>

\* del self.threads[job_name]; thread = None
StartJobL369(c) ==
    /\ call[c].pc = "L369"
    /\ IF InRegistry(call[c].job_name)
       THEN /\ threads' = RegistryDel(threads, call[c].job_name)
            /\ SetFrame(c, [call[c] EXCEPT !.pc = "L371",
                               !.thread = NoThread])
       ELSE /\ SetFrame(c, Raised(call[c], "KeyError"))
            /\ UNCHANGED threads
    /\ UNCHANGED <<tstate, tname, cb_log, run_level, stop,
                 timerVars, mainVars, tm>>

\* if thread is not None: return the "already running" event;
\* otherwise thread = threading.Thread(target=self.run_job_sync, ...)
StartJobL371(c) ==
    /\ call[c].pc = "L371"
    /\ IF call[c].thread # NoThread
       THEN /\ SetFrame(c, [call[c] EXCEPT !.pc = "returned",
                    !.event = AlreadyRunningEvent(call[c].job_name)])
            /\ UNCHANGED <<tstate, tname>>
       ELSE /\ FreeThreads # {}
            /\ SetFrame(c, [call[c] EXCEPT !.pc = "L382",
                               !.thread = NewThread])
            /\ tstate' = [tstate EXCEPT ![NewThread] = "created"]
            /\ tname' = [tname EXCEPT ![NewThread] = call[c].job_name]
    /\ UNCHANGED <<threads, cb_log, run_level, stop,
                 timerVars, mainVars, tm>>

\* self.threads[job_name] = thread
StartJobL382(c) ==
    /\ call[c].pc = "L382"
    /\ threads' = RegistryPut(threads, call[c].job_name, call[c].thread)
    /\ SetFrame(c, [call[c] EXCEPT !.pc = "L383"])
    /\ UNCHANGED <<tstate, tname, cb_log, run_level, stop,
                 timerVars, mainVars, tm>>

\* thread.start(); return event
StartJobL383(c) ==
    /\ call[c].pc = "L383"
    /\ tstate' = [tstate EXCEPT ![call[c].thread] = "running"]
    /\ SetFrame(c, [call[c] EXCEPT !.pc = "returned"])
    /\ UNCHANGED <<threads, tname, cb_log, run_level, stop,
                 timerVars, mainVars, tm>>

\* ----------------------------------------------------------- run_job_sync
\* Mutant of RunJobSync: the job marks every timer as run.
RunJobSync_MarksRan(t) ==
    /\ tstate[t] = "running"
    /\ cb_log' = [cb_log EXCEPT ![t] = Append(@, [status |-> "done"])]
    /\ tstate' = [tstate EXCEPT ![t] = "called"]
    /\ tm' = IF tm.set
             THEN TaskManager([name \in DOMAIN tm.timers |->
                                  [tm.timers[name] EXCEPT !.ran = now]])
             ELSE tm
    /\ UNCHANGED <<threads, tname, run_level, call, stop,
                 timerVars, mainVars>>

\* Mutant of RunJobSync: progress_cb(event) is left out.
RunJobSync_NoCallback(t) ==
    /\ tstate[t] = "running"
    /\ tstate' = [tstate EXCEPT ![t] = "called"]
    /\ UNCHANGED <<threads, tname, cb_log, run_level, call, stop,
                 timerVars, mainVars, tm>>

\* The body of run_job_sync in the spawned thread: the sleep,
\* event['status'] = "done" and progress_cb(event).
RunJobSync(t) ==
    /\ tstate[t] = "running"
    /\ cb_log' = [cb_log EXCEPT ![t] = Append(@, [status |-> "done"])]
    /\ tstate' = [tstate EXCEPT ![t] = "called"]
    /\ UNCHANGED <<threads, tname, run_level, call, stop,
                 timerVars, mainVars, tm>>

\* return event: the thread's run() ends and is_alive() becomes false.
RunJobReturn(t) ==
    /\ tstate[t] = "called"
    /\ tstate' = [tstate EXCEPT ![t] = "dead"]
    /\ UNCHANGED <<threads, tname, cb_log, run_level, call, stop,
                 timerVars, mainVars, tm>>

\* -------------------------------------------------------------- stop_sync
\* self.run_level = 0; wait_time = 1; max_wait_time = 20
StopSyncCall ==
    /\ stop.pc = "idle"
    /\ run_level' = 0
    /\ stop' = [stop EXCEPT !.pc = "L338", !.wait_time = InitialWaitTime]
    /\ UNCHANGED <<threads, tstate, tname, cb_log, call,
                 timerVars, mainVars, tm>>

\* Mutant of StopSyncL338: the loop also ends once the wait has reached
\* max_wait_time, abandoning the executions still registered.
StopSyncL338_GivesUpAtCap ==
    /\ stop.pc = "L338"
    /\ stop' = [stop EXCEPT !.pc =
            IF DOMAIN threads # {} /\ stop.wait_time < MaxWaitTime
            THEN "L339" ELSE "returned"]
    /\ UNCHANGED <<threads, tstate, tname, cb_log, run_level, call,
                 timerVars, mainVars, tm>>

\* while self.threads: ... return True
StopSyncL338 ==
    /\ stop.pc = "L338"
    /\ stop' = [stop EXCEPT !.pc =
            IF DOMAIN threads # {} THEN "L339" ELSE "returned"]
    /\ UNCHANGED <<threads, tstate, tname, cb_log, run_level, call,
                 timerVars, mainVars, tm>>

\* keys = list(self.threads.keys()); alive_keys = []
StopSyncL339 ==
    /\ stop.pc = "L339"
    /\ stop' = [stop EXCEPT !.pc = "L342", !.keys = DOMAIN threads,
                            !.alive_keys = {}]
    /\ UNCHANGED <<threads, tstate, tname, cb_log, run_level, call,
                 timerVars, mainVars, tm>>

\* for key in keys: if not self.threads[key].is_alive(): ... else:
\* alive_keys.append(key).  The keys still to visit are kept as a set and
\* visited in any order.
StopSyncL342 ==
    /\ stop.pc = "L342"
    /\ IF stop.keys = {}
       THEN stop' = [stop EXCEPT !.pc = "L349"]
       ELSE \E key \in stop.keys :
              LET f == [stop EXCEPT !.keys = @ \ {key}, !.key = key]
              IN  IF ~InRegistry(key)
                  THEN stop' = [f EXCEPT !.pc = "raised"]
                  ELSE IF ~is_alive(threads[key])
                       THEN stop' = [f EXCEPT !.pc = "L346"]
                       ELSE stop' = [f EXCEPT !.alive_keys = @ \cup {key}]
    /\ UNCHANGED <<threads, tstate, tname, cb_log, run_level, call,
                 timerVars, mainVars, tm>>

\* del self.threads[key]
StopSyncL346 ==
    /\ stop.pc = "L346"
    /\ IF InRegistry(stop.key)
       THEN /\ threads' = RegistryDel(threads, stop.key)
            /\ stop' = [stop EXCEPT !.pc = "L342"]
       ELSE /\ stop' = [stop EXCEPT !.pc = "raised"]
            /\ UNCHANGED threads
    /\ UNCHANGED <<tstate, tname, cb_log, run_level, call,
                 timerVars, mainVars, tm>>

\* wait_time += 2; if wait_time > max_wait_time: wait_time = max_wait_time
NextWaitTime(w) ==
    IF w + WaitIncrement > MaxWaitTime THEN MaxWaitTime ELSE w + WaitIncrement

\* if self.threads: time.sleep(wait_time) is entered; otherwise the loop
\* goes back to its test.
StopSyncL349 ==
    /\ stop.pc = "L349"
    /\ stop' = [stop EXCEPT !.pc =
            IF DOMAIN threads # {} THEN "L353" ELSE "L338"]
    /\ UNCHANGED <<threads, tstate, tname, cb_log, run_level, call,
                 timerVars, mainVars, tm>>

\* time.sleep(wait_time) returns, the other threads having run meanwhile;
\* wait_time += 2, capped at max_wait_time, and the loop goes back to its
\* test.
StopSyncL353 ==
    /\ stop.pc = "L353"
    /\ stop' = [stop EXCEPT !.pc = "L338", !.wait_time = NextWaitTime(@)]
    /\ UNCHANGED <<threads, tstate, tname, cb_log, run_level, call,
                 timerVars, mainVars, tm>>

\* --------------------------------------------------------------- on_timer
SetTimerFrame(p, f) == ot' = [ot EXCEPT ![p] = f]

\* on_timer() is called.
OnTimerCall(p) ==
    /\ ot[p].pc \in {"idle", "returned"}
    /\ SetTimerFrame(p, [ot[p] EXCEPT !.pc = "L454", !.tmtasks = {}])
    /\ UNCHANGED <<busy, error, tm, coordVars, mainVars>>

\* if self.busy: return
OnTimerL454(p) ==
    /\ ot[p].pc = "L454"
    /\ SetTimerFrame(p, [ot[p] EXCEPT !.pc =
            IF busy THEN "returned" ELSE "L459"])
    /\ UNCHANGED <<busy, error, tm, coordVars, mainVars>>

\* self.busy = True
OnTimerL459(p) ==
    /\ ot[p].pc = "L459"
    /\ busy' = TRUE
    /\ SetTimerFrame(p, [ot[p] EXCEPT !.pc = "L460"])
    /\ UNCHANGED <<error, tm, coordVars, mainVars>>

\* self.error = None; self.run_tasks() is entered
OnTimerL460(p) ==
    /\ ot[p].pc = "L460"
    /\ error' = "None"
    /\ SetTimerFrame(p, [ot[p] EXCEPT !.pc = "L396"])
    /\ UNCHANGED <<busy, tm, coordVars, mainVars>>

\* run_tasks: tmtasks = self.tm.get_ready_timers(datetime.now(UTC)), which
\* raises AttributeError while self.tm is None.
RunTasksL396(p) ==
    /\ ot[p].pc = "L396"
    /\ IF tm.set
       THEN \E at \in Instants :
              SetTimerFrame(p, [ot[p] EXCEPT !.pc = "L398",
                                   !.tmtasks = get_ready_timers(tm, at)])
       ELSE SetTimerFrame(p, [ot[p] EXCEPT !.pc = "raised"])
    /\ UNCHANGED <<busy, error, tm, coordVars, mainVars>>

\* run_tasks: if not tmtasks: self.show_error(...); run_tasks returns
RunTasksL398(p) ==
    /\ ot[p].pc = "L398"
    /\ error' = IF ot[p].tmtasks = {} THEN "There are no tasks scheduled."
                ELSE error
    /\ SetTimerFrame(p, [ot[p] EXCEPT !.pc = "L465"])
    /\ UNCHANGED <<busy, tm, coordVars, mainVars>>

\* self.busy = False
OnTimerL465(p) ==
    /\ ot[p].pc = "L465"
    /\ busy' = FALSE
    /\ SetTimerFrame(p, [ot[p] EXCEPT !.pc = "returned"])
    /\ UNCHANGED <<error, tm, coordVars, mainVars>>

OnTimerStep(p) ==
    \/ OnTimerL454(p)
    \/ OnTimerL459(p)
    \/ OnTimerL460(p)
    \/ RunTasksL396(p)
    \/ RunTasksL398(p)
    \/ OnTimerL465(p)

\* -------------------------------------------------------------- run_timer
\* run_timer() is called: job_name = BackupNow.TIMER_JOB_NAME; thread = None
RunTimerCall(c) ==
    /\ call[c].pc \in {"idle", "returned"}
    /\ FreeThreads # {}
    /\ SetFrame(c, [IdleFrame EXCEPT !.pc = "L427",
                                     !.job_name = TIMER_JOB_NAME,
                                     !.level = run_level])
    /\ UNCHANGED <<threads, tstate, tname, cb_log, run_level, stop,
                 timerVars, mainVars, tm>>

\* if job_name in self.threads:
RunTimerL427(c) ==
    /\ call[c].pc = "L427"
    /\ IF InRegistry(call[c].job_name)
       THEN SetFrame(c, [call[c] EXCEPT !.pc = "L428"])
       ELSE SetFrame(c, [call[c] EXCEPT !.pc = "L434", !.found = "absent"])
    /\ UNCHANGED <<threads, tstate, tname, cb_log, run_level, stop,
                 timerVars, mainVars, tm>>

\* thread = self.threads[job_name]
RunTimerL428(c) ==
    /\ call[c].pc = "L428"
    /\ IF InRegistry(call[c].job_name)
       THEN SetFrame(c, [call[c] EXCEPT !.pc = "L429",
                            !.thread = threads[call[c].job_name]])
       ELSE SetFrame(c, Raised(call[c], "KeyError"))
    /\ UNCHANGED <<threads, tstate, tname, cb_log, run_level, stop,
                 timerVars, mainVars, tm>>

\* if not thread or not thread.is_alive():
RunTimerL429(c) ==
    /\ call[c].pc = "L429"
    /\ IF call[c].thread = NoThread \/ ~is_alive(call[c].thread)
       THEN SetFrame(c, [call[c] EXCEPT !.pc = "L432", !.found = "stale"])
       ELSE SetFrame(c, [call[c] EXCEPT !.pc = "L434", !.found = "live"])
    /\ UNCHANGED <<threads, tstate, tname, cb_log, run_level, stop,
                 timerVars, mainVars, tm>>

\* del self.threads[job_name]; thread = None
RunTimerL432(c) ==
    /\ call[c].pc = "L432"
    /\ IF InRegistry(call[c].job_name)
       THEN /\ threads' = RegistryDel(threads, call[c].job_name)
            /\ SetFrame(c, [call[c] EXCEPT !.pc = "L434",
                               !.thread = NoThread])
       ELSE /\ SetFrame(c, Raised(call[c], "KeyError"))
            /\ UNCHANGED threads
    /\ UNCHANGED <<tstate, tname, cb_log, run_level, stop,
                 timerVars, mainVars, tm>>

\* if thread is not None: return the "already running" event; otherwise
\* thread = threading.Thread(target=self.run_timer_sync, ...) and the
\* method ends there: the Thread is a local that is neither registered nor
\* started, and run_timer returns None (the empty event of the model).
RunTimerL434(c) ==
    /\ call[c].pc = "L434"
    /\ IF call[c].thread # NoThread
       THEN /\ SetFrame(c, [call[c] EXCEPT !.pc = "returned",
                    !.event = AlreadyRunningEvent(call[c].job_name)])
            /\ UNCHANGED <<tstate, tname>>
       ELSE /\ FreeThreads # {}
            /\ SetFrame(c, [call[c] EXCEPT !.pc = "returned",
                               !.thread = NewThread])
            /\ tstate' = [tstate EXCEPT ![NewThread] = "created"]
            /\ tname' = [tname EXCEPT ![NewThread] = call[c].job_name]
    /\ UNCHANGED <<threads, cb_log, run_level, stop,
                 timerVars, mainVars, tm>>

RunTimerStep(c) ==
    \/ RunTimerL427(c)
    \/ RunTimerL428(c)
    \/ RunTimerL429(c)
    \/ RunTimerL432(c)
    \/ RunTimerL434(c)

\* --------------------------------------------------------- run_timer_sync
\* The Thread whose target is the periodic-check loop.  Its position is
\* the position of on_timer caller LoopCaller: "registered", the loop test
\* "L415", the positions of on_timer, "L421", "L422", "return" (or
\* "raising") and "exited" (or "died").
LoopThread == ot[LoopCaller].thread

\* A thread of control sets up the loop as run_timer's docstring and
\* run_timer_sync's describe it: it constructs the Thread with
\* job_name=TIMER_JOB_NAME and registers it, as start_job does at 377-382.
TimerThreadRegister ==
    /\ ot[LoopCaller].pc = "idle"
    /\ ~InRegistry(TIMER_JOB_NAME)
    /\ FreeThreads # {}
    /\ threads' = RegistryPut(threads, TIMER_JOB_NAME, NewThread)
    /\ tstate' = [tstate EXCEPT ![NewThread] = "created"]
    /\ tname' = [tname EXCEPT ![NewThread] = TIMER_JOB_NAME]
    /\ SetTimerFrame(LoopCaller, [ot[LoopCaller] EXCEPT
                         !.pc = "registered", !.thread = NewThread])
    /\ UNCHANGED <<cb_log, run_level, call, stop, busy, error, tm, mainVars>>

\* thread.start(): run_timer_sync(job_name=TIMER_JOB_NAME) begins.
TimerThreadStart ==
    /\ ot[LoopCaller].pc = "registered"
    /\ tstate' = [tstate EXCEPT ![LoopThread] = "running"]
    /\ SetTimerFrame(LoopCaller, [ot[LoopCaller] EXCEPT !.pc = "L415"])
    /\ UNCHANGED <<threads, tname, cb_log, run_level, call, stop, busy,
                 error, tm, mainVars>>

\* while self.run_level > 0: self.on_timer() is called, also after the
\* last on_timer has returned; otherwise `if job_name:` is reached with
\* job_name set.  An on_timer that raised ends the thread there.
RunTimerSyncL415 ==
    /\ ot[LoopCaller].pc \in {"L415", "returned", "raised"}
    /\ LoopThread # NoThread
    /\ IF ot[LoopCaller].pc = "raised"
       THEN /\ tstate' = [tstate EXCEPT ![LoopThread] = "dead"]
            /\ SetTimerFrame(LoopCaller,
                             [ot[LoopCaller] EXCEPT !.pc = "died"])
       ELSE /\ SetTimerFrame(LoopCaller, [ot[LoopCaller] EXCEPT
                    !.pc = IF run_level > 0 THEN "L454" ELSE "L421",
                    !.tmtasks = {}])
            /\ UNCHANGED tstate
    /\ UNCHANGED <<threads, tname, cb_log, run_level, call, stop, busy,
                 error, tm, mainVars>>

\* Mutant of RunTimerSyncL421: the loop goes on to its return without
\* looking for its entry.
RunTimerSyncL421_KeepsEntry ==
    /\ ot[LoopCaller].pc = "L421"
    /\ SetTimerFrame(LoopCaller, [ot[LoopCaller] EXCEPT !.pc = "return"])
    /\ UNCHANGED <<threads, tstate, tname, cb_log, run_level, call, stop,
                 busy, error, tm, mainVars>>

\* if job_name in self.threads: ...; without the entry the method is at
\* its return.
RunTimerSyncL421 ==
    /\ ot[LoopCaller].pc = "L421"
    /\ SetTimerFrame(LoopCaller, [ot[LoopCaller] EXCEPT !.pc =
            IF InRegistry(TIMER_JOB_NAME) THEN "L422" ELSE "return"])
    /\ UNCHANGED <<threads, tstate, tname, cb_log, run_level, call, stop,
                 busy, error, tm, mainVars>>

\* del self.threads[job_name], which raises KeyError when the entry is
\* missing; the thread is still alive after either.
RunTimerSyncL422 ==
    /\ ot[LoopCaller].pc = "L422"
    /\ IF InRegistry(TIMER_JOB_NAME)
       THEN /\ threads' = RegistryDel(threads, TIMER_JOB_NAME)
            /\ SetTimerFrame(LoopCaller,
                             [ot[LoopCaller] EXCEPT !.pc = "return"])
       ELSE /\ UNCHANGED threads
            /\ SetTimerFrame(LoopCaller,
                             [ot[LoopCaller] EXCEPT !.pc = "raising"])
    /\ UNCHANGED <<tstate, tname, cb_log, run_level, call, stop, busy,
                 error, tm, mainVars>>

\* run_timer_sync returns, or its KeyError leaves it: the thread's run()
\* ends and is_alive() becomes false.
RunTimerSyncReturn ==
    /\ ot[LoopCaller].pc \in {"return", "raising"}
    /\ SetTimerFrame(LoopCaller, [ot[LoopCaller] EXCEPT !.pc =
            IF ot[LoopCaller].pc = "return" THEN "exited" ELSE "died"])
    /\ tstate' = [tstate EXCEPT ![LoopThread] = "dead"]
    /\ UNCHANGED <<threads, tname, cb_log, run_level, call, stop, busy,
                 error, tm, mainVars>>

RunTimerSyncStep ==
    \/ RunTimerSyncL415
    \/ RunTimerSyncL421
    \/ RunTimerSyncL422
    \/ RunTimerSyncReturn

\* ------------------------------------------------------------------ start
\* settings.load(try_file) when a settings file exists; the document is
\* empty otherwise.
LoadSettings(f) == IF f.exists THEN f.doc ELSE EmptyDict

\* if 'jobs' not in settings: settings['jobs'] = {}
EnsureJobs(doc) ==
    IF "jobs" \in DOMAIN doc THEN doc ELSE DictPut(doc, "jobs", EmptyDict)

\* Mutant of HealTaskmanager: the value that is not a dict is kept.
HealTaskmanager_Keeps(doc) == doc

\* if 'taskmanager' in settings and it is not a dict: del it
HealTaskmanager(doc) ==
    IF "taskmanager" \in DOMAIN doc /\ ~IsDict(doc["taskmanager"])
    THEN DictDel(doc, "taskmanager")
    ELSE doc

\* __add_timerdict(key, timerdict)
_add_timerdict(doc, key, timerdict) ==
    LET d1 == IF "taskmanager" \notin DOMAIN doc
              THEN DictPut(doc, "taskmanager", PyDict(EmptyDict))
              ELSE doc
        t0 == d1["taskmanager"].items
        t1 == IF "timers" \notin DOMAIN t0
              THEN DictPut(t0, "timers", EmptyDict)
              ELSE t0
        t2 == DictPut(t1, "timers", DictPut(t1["timers"], key, timerdict))
    IN  DictPut(d1, "taskmanager", PyDict(t2))

\* if 'taskmanager' not in settings: settings['taskmanager'] =
\* {'timers': {}} and self._add_default_timerdict()
SeedDefault(doc) ==
    IF "taskmanager" \notin DOMAIN doc
    THEN _add_timerdict(
             DictPut(doc, "taskmanager",
                     PyDict(DictPut(EmptyDict, "timers", EmptyDict))),
             default_backup_name, default_timerdict)
    ELSE doc

\* deserialize_timers(): self.tm is set only when settings.get(
\* 'taskmanager') is truthy, and a value that is not a dict raises.
deserialize_timers(doc, taskmanager) ==
    IF "taskmanager" \in DOMAIN doc /\ Truthy(doc["taskmanager"])
    THEN IF ~IsDict(doc["taskmanager"])
         THEN [raised |-> "TypeError", tm |-> taskmanager]
         ELSE [raised |-> "", tm |-> from_dict(doc["taskmanager"].items)]
    ELSE [raised |-> "", tm |-> taskmanager]

\* settings["comment"] = ... to settings['comment4'] = ...
WriteComments(doc) ==
    DictPut(DictPut(DictPut(DictPut(doc,
        "comment", "detecting folder *and* file prevents copying"
                       \o " to another mount of the source!!"),
        "comment2", "Drives configured by BackupGoNow"
                        \o " (not BackupNow) contain"
                        \o " .BackupGoNow-settings.txt"),
        "comment3", "In this program, all timers should be"
                        \o " \"enabled\", but *jobs* may or may not be."),
        "comment4", "All times should be in UTC"
                        \o " (time strings and timestamps).")

\* run_timer() as one call with no other thread running: a live entry
\* under TIMER_JOB_NAME is left alone; otherwise a stale entry is deleted
\* and a Thread is constructed that is neither registered nor started.
run_timer(inst) ==
    LET name == TIMER_JOB_NAME
        live == /\ name \in DOMAIN inst.threads
                /\ inst.tstate[inst.threads[name]] \in {"running", "called"}
        free == {t \in ThreadIds : inst.tstate[t] = "free"}
        new == CHOOSE t \in free : \A u \in free : t <= u
    IN  IF live THEN inst
        ELSE [threads |-> RegistryDel(inst.threads, name),
              tstate |-> [inst.tstate EXCEPT ![new] = "created"],
              tname |-> [inst.tname EXCEPT ![new] = name]]

\* BackupNow.start(tk) on the instance inst (its registry and the Thread
\* objects of the process) over the settings file f: the settings
\* document and self.tm it leaves, the exception it raises, if any,
\* whether it has reached self.busy = False, and the registry and Thread
\* objects it leaves.  Line 290 reads self.tm.to_dict(), run_tk_timer()
\* raises DeprecationWarning, and without tk run_timer() is called.  The
\* errors of validate_jobs, which start() only returns, are left out.
start(f, tk, inst) ==
    LET doc == SeedDefault(HealTaskmanager(EnsureJobs(
                   WriteComments(LoadSettings(f)))))
        r == IF "taskmanager" \in DOMAIN doc
             THEN deserialize_timers(doc, NoTaskManager)
             ELSE [raised |-> "NotImplementedError", tm |-> NoTaskManager]
        early == IF r.raised # "" THEN r.raised
                 ELSE IF ~r.tm.set THEN "AttributeError"
                 ELSE ""
        after == IF early = "" /\ ~tk THEN run_timer(inst) ELSE inst
    IN  [settings |-> doc, tm |-> r.tm,
         raised |-> IF early # "" THEN early
                    ELSE IF tk THEN "DeprecationWarning"
                    ELSE "",
         busy_reset |-> early = "",
         threads |-> after.threads, tstate |-> after.tstate,
         tname |-> after.tname]

\* The instance is as start(tk) leaves a new instance over the file.
Started(tk) ==
    LET r == start(file, tk, NewInstance)
    IN  /\ settings = r.settings
        /\ tm = r.tm
        /\ ThreadsAre(r)

\* BackupNow.save(): serialize_timers() puts self.tm.to_dict() under
\* 'taskmanager'; settings.save() then writes the document.
save(doc, taskmanager) ==
    DictPut(doc, "taskmanager", PyDict(to_dict(taskmanager)))

\* ------------------------------------------------------------------- load
\* load() is called on a started instance and self.settings.load() reads
\* the settings file in place of the document in memory.
LoadCall ==
    /\ ld.pc \in {"idle", "returned"}
    /\ file.exists
    /\ settings' = file.doc
    /\ ld' = [ld EXCEPT !.pc = "L149"]
    /\ UNCHANGED <<file, tm, now, m, history, vj, coordVars, timerVars>>

\* results = self.deserialize_timers() up to the tests of lines 163-167:
\* a falsy 'taskmanager' returns with self.tm as it was, a value that is
\* not a dict raises TypeError. The errors load() appends to self.errors
\* are left out.
LoadL149 ==
    /\ ld.pc = "L149"
    /\ ld' = [ld EXCEPT !.pc =
                 IF "taskmanager" \in DOMAIN settings
                        /\ Truthy(settings["taskmanager"])
                 THEN IF IsDict(settings["taskmanager"]) THEN "L168"
                      ELSE "raised"
                 ELSE "returned"]
    /\ UNCHANGED <<file, settings, tm, now, m, history, vj, coordVars,
                 timerVars>>

\* self.tm = TaskManager(): until line 170 the instance holds a
\* TaskManager with no timers.
LoadL168 ==
    /\ ld.pc = "L168"
    /\ tm' = TaskManager(EmptyDict)
    /\ ld' = [ld EXCEPT !.pc = "L170"]
    /\ UNCHANGED <<file, settings, now, m, history, vj, coordVars,
                 timerVars>>

\* return self.tm.from_dict(tmdict): tmdict is the mapping settings holds,
\* which nothing replaces while load() runs.
LoadL170 ==
    /\ ld.pc = "L170"
    /\ tm' = from_dict(settings["taskmanager"].items)
    /\ ld' = [ld EXCEPT !.pc = "returned"]
    /\ UNCHANGED <<file, settings, now, m, history, vj, coordVars,
                 timerVars>>

LoadStep == LoadL149 \/ LoadL168 \/ LoadL170

\* ------------------------------------------------------------------- main
TimerNames == {default_backup_name, "early"}

Log(event) == history' = Append(history, event)

\* JobsWatcher.job_names(): the jobs that the bound timers' commands name;
\* "*" names every job of settings['jobs'].
job_names(bound) ==
    UNION {LET commands == tm.timers[name].commands
               named == {commands[i] : i \in DOMAIN commands}
           IN  IF "*" \in named THEN DOMAIN settings["jobs"] ELSE named
           : name \in bound}

\* A process is started: main() with args.backup_name (the empty string
\* for None) at an instant not before the last one.
MainInvoke(at, backup_name) ==
    /\ m.pc \in {"idle", "exited", "raised"}
    /\ m.cycle < MaxCycles
    /\ Later(at, now)
    /\ now' = at
    /\ m' = [IdleMain EXCEPT !.pc = "L511", !.backup_name = backup_name,
                             !.cycle = m.cycle + 1]
    /\ settings' = EmptyDict
    /\ tm' = NoTaskManager
    /\ threads' = NewInstance.threads
    /\ tstate' = NewInstance.tstate
    /\ tname' = NewInstance.tname
    /\ UNCHANGED <<file, history, cb_log, run_level, call, stop,
                 timerVars, vj, ld>>

\* core = BackupNow(); results = core.start(), called without tk.
\* start() ends with self.busy = False and run_timer(), which on the empty
\* registry of a new instance constructs a Thread that it neither
\* registers nor starts.
MainStart ==
    /\ m.pc = "L511"
    /\ LET r == start(file, FALSE, [threads |-> threads, tstate |-> tstate,
                                    tname |-> tname])
       IN  /\ settings' = r.settings
           /\ tm' = r.tm
           /\ busy' = IF r.busy_reset THEN FALSE ELSE busy
           /\ threads' = r.threads
           /\ tstate' = r.tstate
           /\ tname' = r.tname
           /\ m' = [m EXCEPT !.pc = IF r.raised # "" THEN "raised"
                                    ELSE "L519"]
    /\ UNCHANGED <<file, now, history, cb_log, run_level, call, stop,
                 error, ot, vj, ld>>

\* timers = core.tm.get_ready_timers(), filtered by args.backup_name
MainReadyTimers ==
    /\ m.pc = "L519"
    /\ LET timers == get_ready_timers(tm, now)
       IN  m' = [m EXCEPT !.pc = "L561", !.timers =
                    IF timers # {} /\ m.backup_name # ""
                    THEN timers \cap {m.backup_name}
                    ELSE timers]
    /\ UNCHANGED <<file, settings, tm, now, history, coordVars, timerVars, vj, ld>>

\* Mutant of MainBind: core.save() is called before the jobs run.
MainBind_SavesFirst ==
    /\ m.pc = "L561"
    /\ IF m.timers = {}
       THEN /\ m' = [m EXCEPT !.pc = "exited"]
            /\ UNCHANGED <<file, settings, history>>
       ELSE /\ m' = [m EXCEPT !.pc = "L568", !.bound = m.timers,
                                !.saves = m.saves + 1]
            /\ settings' = save(settings, tm)
            /\ file' = File(settings')
            /\ Log([kind |-> "save", cycle |-> m.cycle, day |-> now.day,
                    names |-> {}])
    /\ UNCHANGED <<tm, now, coordVars, timerVars, vj, ld>>

\* watcher = JobsWatcher(core); if not timers: return 0;
\* watcher.add_timer(name, timer) for every ready timer
MainBind ==
    /\ m.pc = "L561"
    /\ IF m.timers = {}
       THEN m' = [m EXCEPT !.pc = "exited"]
       ELSE m' = [m EXCEPT !.pc = "L568", !.bound = m.timers]
    /\ UNCHANGED <<file, settings, tm, now, history, coordVars, timerVars, vj, ld>>

\* job_names = watcher.job_names(); watcher.run_sync() is entered (the
\* branch taken since enable_multithreading is False)
MainRunSync ==
    /\ m.pc = "L568"
    /\ ~enable_multithreading
    /\ m' = [m EXCEPT !.pc = "run_sync", !.pending = job_names(m.bound)]
    /\ Log([kind |-> "dispatch", cycle |-> m.cycle, day |-> now.day,
            names |-> m.bound])
    /\ UNCHANGED <<file, settings, tm, now, coordVars, timerVars, vj, ld>>

\* JobsWatcher.run_sync(): the next job runs on the caller's thread.
WatcherRunJob ==
    /\ m.pc = "run_sync"
    /\ \E job \in m.pending :
          /\ m' = [m EXCEPT !.pending = @ \ {job}]
          /\ Log([kind |-> "job", cycle |-> m.cycle, day |-> now.day,
                  names |-> {job}])
    /\ UNCHANGED <<file, settings, tm, now, coordVars, timerVars, vj, ld>>

\* JobsWatcher.run_sync(): every job has run and run_sync returns its
\* event {error?, status: "done"}; event.get('error') is read and nothing
\* sets the 'ran' marker of a timer.
WatcherRunSyncEnd ==
    /\ m.pc = "run_sync"
    /\ m.pending = {}
    /\ m' = [m EXCEPT !.pc = "L580"]
    /\ Log([kind |-> "return", cycle |-> m.cycle, day |-> now.day,
            names |-> m.bound])
    /\ UNCHANGED <<file, settings, tm, now, coordVars, timerVars, vj, ld>>

\* core.save(); return 0
MainSave ==
    /\ m.pc = "L580"
    /\ settings' = save(settings, tm)
    /\ file' = File(settings')
    /\ m' = [m EXCEPT !.pc = "exited", !.saves = m.saves + 1]
    /\ Log([kind |-> "save", cycle |-> m.cycle, day |-> now.day,
            names |-> {}])
    /\ UNCHANGED <<tm, now, coordVars, timerVars, vj, ld>>

\* ------------------------------------------------- settings files on disk
JobDict == [operations |-> <<[source |-> "/data"]>>]

PersistedJobs ==
    {EmptyDict, DictPut(EmptyDict, "docs", JobDict),
     DictPut(DictPut(EmptyDict, "docs", JobDict), "photos", JobDict)}

PersistedTimers ==
    {EmptyDict,
     DictPut(EmptyDict, default_backup_name, default_timerdict),
     DictPut(EmptyDict, default_backup_name,
             [default_timerdict EXCEPT !.enabled = FALSE]),
     DictPut(DictPut(EmptyDict, default_backup_name, default_timerdict),
             "early", [time |-> "08:00", span |-> "daily",
                       commands |-> <<"docs">>, enabled |-> TRUE])}

\* The values of 'taskmanager': a mapping with 'timers', a mapping without
\* 'timers' (empty, or with another key only), a string and null.
PersistedTaskmanagers ==
    {PyDict(DictPut(EmptyDict, "timers", timers)) : timers \in PersistedTimers}
        \cup {PyDict(EmptyDict),
              PyDict(DictPut(EmptyDict, "options", EmptyDict)),
              PyStr, PyNone}

\* The settings documents a file may hold: 'jobs' and 'taskmanager' are
\* each present or not.
PersistedDocs ==
    {EmptyDict}
        \cup {DictPut(EmptyDict, "jobs", jobs) : jobs \in PersistedJobs}
        \cup {DictPut(EmptyDict, "taskmanager", t) :
                  t \in PersistedTaskmanagers}
        \cup {DictPut(DictPut(EmptyDict, "jobs", jobs), "taskmanager", t) :
                  jobs \in PersistedJobs, t \in PersistedTaskmanagers}

\* ---------------------------------------------------------- validate_jobs
\* str(n) of a natural number
RECURSIVE ToStr(_)
ToStr(n) ==
    LET digits == <<"0", "1", "2", "3", "4", "5", "6", "7", "8", "9">>
    IN  IF n < 10 THEN digits[n + 1]
        ELSE ToStr(n \div 10) \o digits[(n % 10) + 1]

\* validate_operation(opdict): the errors of one operation
validate_operation(opdict) ==
    IF "source" \notin DOMAIN opdict THEN <<"missing 'source'">> ELSE << >>

\* Mutant of OperationErrors: the position is reported as enumerate gives
\* it, counted from 0.
RECURSIVE OperationErrors_ZeroBased(_, _)
OperationErrors_ZeroBased(position, op_errors) ==
    IF op_errors = << >> THEN << >>
    ELSE <<"operation " \o ToStr(position - 1) \o " " \o Head(op_errors)>>
             \o OperationErrors_ZeroBased(position, Tail(op_errors))

\* for op_error in op_errors: "operation {} {}".format(i+1, op_error),
\* where position is i+1
RECURSIVE OperationErrors(_, _)
OperationErrors(position, op_errors) ==
    IF op_errors = << >> THEN << >>
    ELSE <<"operation " \o ToStr(position) \o " " \o Head(op_errors)>>
             \o OperationErrors(position, Tail(op_errors))

\* for i, operation in enumerate(job['operations']), from position on
RECURSIVE OperationsErrors(_, _)
OperationsErrors(operations, position) ==
    IF position > Len(operations) THEN << >>
    ELSE OperationErrors(position, validate_operation(operations[position]))
             \o OperationsErrors(operations, position + 1)

\* The body of `for name, job in jobs.items()` for one item.
JobErrors(name, job) ==
    (IF name = "" THEN <<"There is a blank job name.">> ELSE << >>)
        \o (IF "operations" \notin DOMAIN job
            THEN <<"Job '" \o name \o "' has no operations.">>
            ELSE OperationsErrors(job.operations, 1))

\* validate_jobs(): results['errors'] for jobs.items() in the order of the
\* dict (items is the sequence of its <<name, job>> pairs); `if not jobs`
\* returns the empty list as the loop over no item does.
RECURSIVE validate_jobs(_)
validate_jobs(items) ==
    IF items = << >> THEN << >>
    ELSE JobErrors(items[1][1], items[1][2]) \o validate_jobs(Tail(items))

\* The operations of the jobs that are validated: with and without
\* 'source'.
ValidatedOperations == {[source |-> "/data"], [destination |-> "/mnt"]}

\* The jobs that are validated: without 'operations', or with up to
\* MaxOperations operations.
ValidatedJobs ==
    {[enabled |-> TRUE]}
        \cup {[operations |-> ops] :
                 ops \in UNION {[1..n -> ValidatedOperations] :
                                  n \in 0..MaxOperations}}

ValidatedNames == {"", "docs", "photos"}

\* jobs.items() of the mappings of up to MaxJobs jobs, a name being a key
\* once.
ValidatedItems ==
    {items \in UNION {[1..n -> ValidatedNames \X ValidatedJobs] :
                         n \in 0..MaxJobs} :
        \A i, j \in DOMAIN items : items[i][1] = items[j][1] => i = j}

\* dict(items)
DictOf(items) ==
    [name \in {items[i][1] : i \in DOMAIN items} |->
        items[CHOOSE i \in DOMAIN items : items[i][1] = name][2]]

\* settings['jobs'] holds the mapping and validate_jobs() is called on it.
ValidateJobs(items) ==
    /\ vj.pc = "idle"
    /\ settings' = DictPut(settings, "jobs", DictOf(items))
    /\ vj' = [pc |-> "returned", errors |-> validate_jobs(items)]
    /\ UNCHANGED <<file, tm, now, m, history, ld, coordVars, timerVars>>

\* ---------------------------------------------------------- specifications
\* The steps of one start_job call after it has been made.
StartJobStep(c) ==
    \/ StartJobL364(c)
    \/ StartJobL365(c)
    \/ StartJobL366(c)
    \/ StartJobL369(c)
    \/ StartJobL371(c)
    \/ StartJobL382(c)
    \/ StartJobL383(c)

StopSyncStep ==
    \/ StopSyncL338
    \/ StopSyncL339
    \/ StopSyncL342
    \/ StopSyncL346
    \/ StopSyncL349
    \/ StopSyncL353

ThreadStep == \E t \in ThreadIds : RunJobSync(t) \/ RunJobReturn(t)

\* No API call of the owning thread of control is in progress.
ApiIdle ==
    /\ call[MainCaller].pc \in {"idle", "returned"}
    /\ stop.pc \in {"idle", "returned"}
    /\ ld.pc \in {"idle", "returned"}

\* One thread of control (the frontend that owns the instance) makes the
\* API calls one after the other; the spawned threads run concurrently.
Next ==
    \/ \E name \in JobNames, has_cb \in BOOLEAN :
          ApiIdle /\ StartJobCall(MainCaller, name, has_cb)
    \/ StartJobStep(MainCaller)
    \/ ApiIdle /\ StopSyncCall
    \/ StopSyncStep
    \/ ThreadStep

Spec == Init /\ [][Next]_vars

\* The same calls on an instance whose start() has returned over no
\* settings file, or has not been called.
InitJobs ==
    /\ InitFlags
    /\ file = NoFile
    /\ \E started \in BOOLEAN :
          IF started
          THEN Started(FALSE)
          ELSE /\ ThreadsAre(NewInstance)
               /\ settings = EmptyDict
               /\ tm = NoTaskManager
    /\ now = [day |-> 0, hour |-> 9]
    /\ m = IdleMain
    /\ history = << >>
    /\ vj = IdleValidate
    /\ ld = IdleLoad

SpecJobs == InitJobs /\ [][Next]_vars

\* Several threads of control call the API concurrently: each caller makes
\* one start_job call and one more thread of control calls stop_sync.
NextThreads ==
    \/ \E c \in Callers, name \in JobNames :
          call[c].pc = "idle" /\ StartJobCall(c, name, TRUE)
    \/ \E c \in Callers : StartJobStep(c)
    \/ StopSyncCall
    \/ StopSyncStep
    \/ ThreadStep

SpecThreads == Init /\ [][NextThreads]_vars

\* A BackupNow instance, before start() or after a start() that set
\* self.tm (with or without tk, run_tk_timer's DeprecationWarning being
\* caught), whose on_timer is called from several threads of control.
InitTimer ==
    /\ InitFlags
    /\ file \in {NoFile} \cup {File(doc) : doc \in PersistedDocs}
    /\ \E started \in BOOLEAN, tk \in BOOLEAN :
          IF started
          THEN /\ start(file, tk, NewInstance).raised
                      \in {"", "DeprecationWarning"}
               /\ Started(tk)
          ELSE /\ ThreadsAre(NewInstance)
               /\ settings = EmptyDict
               /\ tm = NoTaskManager
    /\ now = [day |-> 0, hour |-> 9]
    /\ m = IdleMain
    /\ history = << >>
    /\ vj = IdleValidate
    /\ ld = IdleLoad

NextTimer ==
    \/ \E p \in TimerCallers : OnTimerCall(p)
    \/ \E p \in TimerCallers : OnTimerStep(p)

SpecTimer == InitTimer /\ [][NextTimer]_vars

\* The orchestrator: main is run again and again as a new process over
\* the settings file the last run left.
InitMain ==
    /\ InitCore
    /\ tm = NoTaskManager
    /\ file \in {NoFile} \cup {File(doc) : doc \in PersistedDocs}
    /\ settings = EmptyDict
    /\ now = [day |-> 0, hour |-> 9]
    /\ m = IdleMain
    /\ history = << >>
    /\ vj = IdleValidate
    /\ ld = IdleLoad

NextMain ==
    \/ \E at \in Instants, backup_name \in {""} \cup TimerNames :
          MainInvoke(at, backup_name)
    \/ MainStart
    \/ MainReadyTimers
    \/ MainBind
    \/ MainRunSync
    \/ WatcherRunJob
    \/ WatcherRunSyncEnd
    \/ MainSave

SpecMain == InitMain /\ [][NextMain]_vars

\* The periodic-check loop: after a start() that has returned, the owning
\* thread of control calls run_timer, load and stop_sync one after the
\* other, and a run_timer_sync thread registered under TIMER_JOB_NAME runs
\* concurrently.
InitLoop ==
    /\ InitFlags
    /\ file \in {NoFile} \cup {File(DictPut(EmptyDict, "taskmanager", t)) :
                                  t \in PersistedTaskmanagers}
    /\ start(file, FALSE, NewInstance).raised = ""
    /\ Started(FALSE)
    /\ now = [day |-> 0, hour |-> 9]
    /\ m = IdleMain
    /\ history = << >>
    /\ vj = IdleValidate
    /\ ld = IdleLoad

NextLoop ==
    \/ ApiIdle /\ RunTimerCall(MainCaller)
    \/ RunTimerStep(MainCaller)
    \/ ApiIdle /\ LoadCall
    \/ LoadStep
    \/ TimerThreadRegister
    \/ TimerThreadStart
    \/ RunTimerSyncStep
    \/ OnTimerStep(LoopCaller)
    \/ ApiIdle /\ StopSyncCall
    \/ StopSyncStep

SpecLoop == InitLoop /\ [][NextLoop]_vars

\* Scheduling: the loop's thread, once started, goes on running.
FairSpecLoop ==
    /\ SpecLoop
    /\ WF_vars(RunTimerSyncStep \/ OnTimerStep(LoopCaller))

\* validate_jobs is called on a jobs mapping.
NextValidate == \E items \in ValidatedItems : ValidateJobs(items)

SpecValidate == Init /\ [][NextValidate]_vars

\* Scheduling: a started thread runs to its end, and a call that has been
\* made goes on until it returns or raises.  Whether and when the owning
\* thread of control makes another API call is its own choice.
FairSpec ==
    /\ Spec
    /\ WF_vars(ThreadStep)
    /\ WF_vars(StartJobStep(MainCaller))
    /\ WF_vars(StopSyncStep)

\* ------------------------------------------------------------------ claims
\* The executions of a name that have been started and have not ended.
Running(name) == {t \in ThreadIds : tname[t] = name /\ is_alive(t)}

\* The Thread objects of a name that exist and have not ended.
Outstanding(name) ==
    {t \in ThreadIds : tname[t] = name
                       /\ tstate[t] \in {"created", "running", "called"}}

\* C1: for every job name and every interleaving of start_job calls made
\* from several threads of control, at most one execution of that name is
\* running at any time.
C1_AtMostOneRunningPerName ==
    \A name \in JobNames : Cardinality(Running(name)) <= 1

\* C2: a start_job call of the owning thread of control that finds the name
\* registered with a live execution constructs no Thread, leaves the
\* registry as it was and returns the "already running" record: when it
\* returns, the execution it found is still registered under the name and
\* is the only one of that name that has not ended.
C2_SecondCallStep ==
    LET f == call[MainCaller]
        g == call'[MainCaller]
    IN  (g # f /\ g.found = "live") =>
            /\ threads' = threads
            /\ tstate' = tstate
            /\ g.pc \in {"L371", "returned"}
            /\ g.pc = "returned" =>
                  /\ g.event = AlreadyRunningEvent(g.job_name)
                  /\ InRegistry(g.job_name)
                  /\ threads[g.job_name] = g.thread
                  /\ Outstanding(g.job_name) \subseteq {g.thread}

\* C2, for every step of every behaviour: the second call spawns nothing,
\* leaves the registry unchanged and returns the "already running" record.
C2_AlreadyRunning == [][C2_SecondCallStep]_vars

C2_Witness ==
    LET f == call[MainCaller] IN
    /\ f.pc = "returned"
    /\ f.found = "live"
    /\ f.event = AlreadyRunningEvent(f.job_name)
    /\ is_alive(f.thread)
    /\ Cardinality({t \in ThreadIds : tname[t] = f.job_name}) = 1

\* C3: stop_sync returns only when the execution registry is empty and no
\* execution started through start_job is still running, however its
\* polling interleaves with job completion and with start_job calls.
C3_StopReturnsQuiescent ==
    [][(stop.pc # "returned" /\ stop'.pc = "returned") =>
          /\ DOMAIN threads' = {}
          /\ \A t \in ThreadIds : tstate'[t] \notin {"running", "called"}]_vars

\* The on_timer calls that are executing run_tasks.
InRunTasks == {p \in TimerCallers : ot[p].pc \in {"L396", "L398"}}

\* The events of a kind that the cycle of event i logged before event i.
EventsBefore(i, kind) ==
    {j \in 1..(i - 1) : history[j].kind = kind
                        /\ history[j].cycle = history[i].cycle}

\* settings['taskmanager']['timers'] of the settings file.
SavedTimers == file.doc["taskmanager"].items["timers"]

\* C4: in one cycle of main every timer that was dispatched has its ran
\* marker set after the dispatch and before the one save that ends the
\* cycle, the saved file holds the marker, and no later cycle of the same
\* day dispatches that timer again.
C4_RanMarkedBeforeSave ==
    /\ \A i \in DOMAIN history :
          /\ history[i].kind = "save" => EventsBefore(i, "save") = {}
          /\ history[i].kind = "dispatch" =>
                \A j \in 1..(i - 1) :
                    (history[j].kind = "dispatch"
                     /\ history[j].day = history[i].day)
                        => history[j].names \cap history[i].names = {}
    /\ m.pc = "L580" =>
          \A name \in m.bound :
              tm.timers[name] = mark_ran(tm, name, now).timers[name]
    /\ (m.pc = "exited" /\ m.saves = 1) =>
          \A name \in m.bound :
              /\ "ran" \in DOMAIN SavedTimers[name]
              /\ SavedTimers[name].ran = now
    /\ (m.pc = "L561" /\ m.cycle > 1) =>
          \A i \in DOMAIN history :
              (history[i].kind = "dispatch" /\ history[i].day = now.day)
                  => history[i].names \cap m.timers = {}

\* C5: the periodic check never runs twice at the same time: run_tasks is
\* executed by at most one on_timer call, for every interleaving of
\* on_timer calls from different threads of control.
C5_NoOverlappingChecks == Cardinality(InRunTasks) <= 1

\* C10 (as claimed): in the orchestrator cycle the settings are saved
\* exactly once.
C10_SavedExactlyOnce == m.pc = "exited" => m.saves = 1

\* C10 (amended): a cycle in which a timer is ready saves the settings
\* exactly once, after run_sync has returned with every job run; nothing
\* is saved before or during the run, and a cycle in which no timer is
\* ready returns without saving.
C10_SaveState ==
    /\ m.saves <= 1
    /\ m.pc \in {"L511", "L519", "L561", "L568", "run_sync", "L580", "raised"}
          => m.saves = 0
    /\ m.pc = "exited" => m.saves = (IF m.timers # {} THEN 1 ELSE 0)
    /\ m.saves = 1 =>
          /\ m.pending = {}
          /\ history[Len(history)].kind = "save"
          /\ history[Len(history) - 1].kind = "return"

C10_SaveStep ==
    file' # file =>
        /\ m.pc = "L580"
        /\ m.pending = {}
        /\ m'.pc = "exited"
        /\ m'.saves = 1

\* C10 (amended), for every state and every step of every behaviour.
C10_SavedOnceAfterRun == []C10_SaveState /\ [][C10_SaveStep]_vars

C10_Witness ==
    /\ m.pc = "exited"
    /\ m.saves = 1
    /\ \E i \in DOMAIN history :
          history[i].kind = "job" /\ history[i].cycle = m.cycle

\* C6: stop_sync, once called, eventually returns when every registered
\* execution eventually finishes; while a registered execution is alive it
\* does not return, also when the wait has reached max_wait_time.
C6_KeepsPolling ==
    (stop.pc = "L338" /\ \E k \in DOMAIN threads : is_alive(threads[k]))
        => stop'.pc # "returned"

\* C6: stop_sync eventually returns, and never while a registered
\* execution is alive.
C6_StopSyncReturns ==
    /\ (stop.pc \notin {"idle", "returned"}) ~> (stop.pc = "returned")
    /\ [][C6_KeepsPolling]_vars

C6_Witness ==
    /\ stop.pc = "L338"
    /\ stop.wait_time = MaxWaitTime
    /\ \E k \in DOMAIN threads : is_alive(threads[k])

\* C7: once stop_sync has dropped run_level to 0, a start_job call made
\* after that point spawns no execution and registers nothing.
C7_NoStartAfterStop ==
    \A c \in Callers :
        call[c].level = 0 =>
            /\ call[c].pc \notin {"L382", "L383"}
            /\ call[c].pc = "returned" => call[c].event # EmptyEvent

\* C8: a start_job call that finds the name registered with a handle that
\* is no longer alive discards the entry and then does what a call that
\* finds no entry does: it constructs one Thread, registers it under the
\* name, starts it and returns an empty record.
C8_StaleEntryStep ==
    LET f == call[MainCaller]
        g == call'[MainCaller]
        name == g.job_name
    IN  /\ (g # f /\ g.found = "stale" /\ f.pc = "L369") =>
              /\ g.pc = "L371"
              /\ g.thread = NoThread
              /\ name \notin DOMAIN threads'
        /\ (g # f /\ g.found \in {"stale", "absent"} /\ g.pc = "returned") =>
              /\ g.event = EmptyEvent
              /\ g.thread # NoThread
              /\ tname[g.thread] = name
              /\ tstate[g.thread] = "created"
              /\ tstate'[g.thread] = "running"
              /\ name \in DOMAIN threads'
              /\ threads'[name] = g.thread
              /\ Outstanding(name) = {g.thread}

\* C8, for every step of every behaviour: the stale entry is discarded
\* and the call spawns, registers and starts one new execution.
C8_StaleEntryReplaced == [][C8_StaleEntryStep]_vars

C8_Witness ==
    LET f == call[MainCaller] IN
    /\ f.found = "stale"
    /\ f.pc = "returned"
    /\ f.event = EmptyEvent
    /\ \E t \in ThreadIds : t # f.thread /\ tname[t] = f.job_name
                            /\ tstate[t] = "dead"

\* C9: after an execution spawned by start_job has finished, its registry
\* entry goes away without a further start_job or stop_sync call: once
\* every thread has ended and no API call is in progress, no entry of an
\* ended execution is left.
C9_EntryRemovedOnCompletion ==
    (ApiIdle /\ \A t \in ThreadIds : tstate[t] \in {"free", "dead"}) =>
        \A k \in DOMAIN threads : tstate[threads[k]] # "dead"

\* ------------------------------------------------------------------ C11
\* The settings file holds a 'taskmanager' value that is not a mapping.
NonDictPersisted ==
    /\ file.exists
    /\ "taskmanager" \in DOMAIN file.doc
    /\ ~IsDict(file.doc["taskmanager"])

\* start() over such a file: it does not raise, the document's
\* 'taskmanager' is the fresh mapping {'timers': {default}} and self.tm is
\* set from it.
C11_HealStep ==
    (m.pc = "L511" /\ m'.pc # "L511" /\ NonDictPersisted)
        => /\ m'.pc = "L519"
           /\ IsDict(settings'["taskmanager"])
           /\ settings'["taskmanager"].items =
                  DictPut(EmptyDict, "timers",
                          DictPut(EmptyDict, default_backup_name,
                                  default_timerdict))
           /\ tm'.set
           /\ deserialize_timers(settings', NoTaskManager).raised = ""

\* C11: for every persisted 'taskmanager' value that is present but not a
\* mapping, start() does not fail and resets 'taskmanager' to a fresh
\* default mapping with a 'timers' mapping, so that deserialize_timers
\* sees a mapping and its TypeError is not raised.
C11_NonDictHealed == [][C11_HealStep]_vars

\* start() has returned over a file whose 'taskmanager' is not a mapping.
C11_Witness ==
    /\ m.pc = "L519"
    /\ NonDictPersisted
    /\ IsDict(settings["taskmanager"])
    /\ tm.set

\* ------------------------------------------------------------------ C12
\* The persisted 'taskmanager' structure is missing or incomplete: there
\* is no file or no key, or the mapping is empty or has no 'timers'.
IncompletePersisted ==
    \/ ~file.exists
    \/ "taskmanager" \notin DOMAIN file.doc
    \/ /\ IsDict(file.doc["taskmanager"])
       /\ "timers" \notin DOMAIN file.doc["taskmanager"].items

\* C12: for every missing or incomplete persisted 'taskmanager' structure
\* start() completes without raising and leaves self.tm set.
C12_StartCompletes ==
    (IncompletePersisted /\ m.pc \notin {"idle", "L511"})
        => (m.pc # "raised" /\ tm.set)

\* ------------------------------------------------------------------ C13
\* settings['taskmanager']['timers'] of the document in memory, empty
\* when the key is not there.
SettingsTimers ==
    LET items == settings["taskmanager"].items
    IN  IF "timers" \in DOMAIN items THEN items["timers"] ELSE EmptyDict

\* C13: once start() has returned, the settings document holds at least
\* one timer (the default timer is seeded whenever no persisted timer
\* exists).
C13_HoldsATimer ==
    m.pc = "L519" => DOMAIN SettingsTimers # {}

\* ------------------------------------------------------------------ C14
\* How often an error is in the list validate_jobs returned.
Count(errors, text) == Cardinality({i \in DOMAIN errors : errors[i] = text})

\* The jobs of settings['jobs'] that have 'operations'.
JobsWithOperations ==
    {name \in DOMAIN settings["jobs"] :
        "operations" \in DOMAIN settings["jobs"][name]}

\* The jobs whose operation at a position has no 'source'.
MissingSourceAt(position) ==
    {name \in JobsWithOperations :
        LET operations == settings["jobs"][name].operations
        IN  /\ position \in DOMAIN operations
            /\ "source" \notin DOMAIN operations[position]}

RECURSIVE Sum(_, _)
Sum(f, S) ==
    IF S = {} THEN 0
    ELSE LET x == CHOOSE y \in S : TRUE IN f[x] + Sum(f, S \ {x})

\* C14: validate_jobs returns one error for a blank job name, one for each
\* job without 'operations' and one for each operation without 'source',
\* carrying its 1-based position, and nothing else: a job without
\* 'operations' or with 'source' in every operation adds no other error.
C14_ExactErrors ==
    vj.pc = "returned" =>
        LET jobs == settings["jobs"]
            blank == {name \in DOMAIN jobs : name = ""}
            bare == DOMAIN jobs \ JobsWithOperations
            positions == 1..MaxOperations
            missing == [p \in positions |-> Cardinality(MissingSourceAt(p))]
        IN  /\ Count(vj.errors, "There is a blank job name.")
                   = Cardinality(blank)
            /\ \A name \in bare :
                   Count(vj.errors,
                         "Job '" \o name \o "' has no operations.") = 1
            /\ \A p \in positions :
                   Count(vj.errors,
                         "operation " \o ToStr(p) \o " missing 'source'")
                       = missing[p]
            /\ Len(vj.errors) = Cardinality(blank) + Cardinality(bare)
                                   + Sum(missing, positions)

\* validate_jobs has returned the three kinds of error for a mapping that
\* holds a blank name without 'operations' and a job whose second
\* operation has no 'source' while its first has.
C14_Witness ==
    /\ vj.pc = "returned"
    /\ "" \in DOMAIN settings["jobs"] \ JobsWithOperations
    /\ MissingSourceAt(2) # {}
    /\ MissingSourceAt(2) \ MissingSourceAt(1) # {}
    /\ Len(vj.errors) = 3
    /\ Count(vj.errors, "operation 2 missing 'source'") = 1

\* ------------------------------------------------------------------ C15
\* A start_job call that was made without progress_cb has raised
\* ValueError and stands there.
C15_Rejected ==
    LET f == call[MainCaller]
    IN  (f.pc # "idle" /\ ~f.progress_cb)
            => (f.pc = "raised" /\ f.event = [exception |-> "ValueError"])

\* A step of such a call constructs no Thread and leaves the registry and
\* every Thread as they were.
C15_RejectedStep ==
    (call'[MainCaller] # call[MainCaller] /\ ~call'[MainCaller].progress_cb)
        => UNCHANGED <<threads, tstate, tname, cb_log>>

\* C15: start_job called without progress_cb is rejected with ValueError
\* before any effect: nothing is spawned and the registry is unchanged,
\* also when a stale entry for the name is registered.
C15_NoCallbackRejected == []C15_Rejected /\ [][C15_RejectedStep]_vars

\* The call was rejected while the name was registered with a dead
\* Thread, and the entry is still there.
C15_Witness ==
    LET f == call[MainCaller]
    IN  /\ f.pc = "raised"
        /\ ~f.progress_cb
        /\ InRegistry(f.job_name)
        /\ tstate[threads[f.job_name]] = "dead"

\* ------------------------------------------------------------------ C16
\* No execution has called progress_cb twice, every record it passed has
\* status "done", and an execution that has ended has called it.
C16_AtMostOnceDone ==
    \A t \in ThreadIds :
        /\ Len(cb_log[t]) <= 1
        /\ \A i \in DOMAIN cb_log[t] : cb_log[t][i].status = "done"
        /\ tstate[t] \in {"called", "dead"} => Len(cb_log[t]) = 1
        /\ tstate[t] \in {"free", "created", "running"} => cb_log[t] = << >>

\* The step that answers a start_job call with "already running" calls
\* no progress_cb.
C16_AlreadyRunningStep ==
    LET f == call[MainCaller]
    IN  (f.pc = "L371" /\ f.found = "live" /\ call'[MainCaller] # f)
            => cb_log' = cb_log

\* C16: every execution spawned by start_job eventually calls progress_cb,
\* exactly once and with status "done"; a start_job call answered with
\* "already running" calls no progress_cb.
C16_CallbackOnce ==
    /\ []C16_AtMostOnceDone
    /\ [][C16_AlreadyRunningStep]_vars
    /\ \A t \in ThreadIds :
           (tstate[t] = "created") ~> (Len(cb_log[t]) = 1)

\* A second call for a name was answered with "already running", and the
\* one execution spawned for the name has ended after one progress_cb
\* call.
C16_Witness ==
    LET f == call[MainCaller]
    IN  /\ f.pc = "returned"
        /\ f.found = "live"
        /\ Cardinality({t \in ThreadIds : tname[t] = f.job_name}) = 1
        /\ \E t \in ThreadIds :
               /\ tname[t] = f.job_name
               /\ tstate[t] = "dead"
               /\ cb_log[t] = <<[status |-> "done"]>>

\* ------------------------------------------------------------------ C17
\* C17: a run_timer call that found no live execution registered under
\* TIMER_JOB_NAME has, when it returns, started the periodic-check loop
\* as a background execution registered under that name.
C17_TimerStarted ==
    LET f == call[MainCaller]
    IN  (f.pc = "returned" /\ f.job_name = TIMER_JOB_NAME
            /\ f.found \in {"absent", "stale"})
            => /\ InRegistry(TIMER_JOB_NAME)
               /\ threads[TIMER_JOB_NAME] = f.thread
               /\ tstate[f.thread] # "created"

\* ------------------------------------------------------------------ C18
\* The loop's thread has been started and has not ended.
LoopAlive == ot[LoopCaller].thread # NoThread /\ is_alive(LoopThread)

\* The loop's thread has ended: run_timer_sync has returned ("exited"),
\* or its `del` has raised KeyError because the entry it had just seen
\* was deleted by stop_sync or run_timer meanwhile ("died").
LoopEnded == ot[LoopCaller].pc \in {"exited", "died"}

\* The loop has seen run_level 0 at its test.
LoopLeft ==
    ot[LoopCaller].pc \in {"L421", "L422", "return", "raising"} \/ LoopEnded

\* A loop that has ended has no entry under its name.
C18_ExitedUnregistered ==
    LoopEnded => (~InRegistry(TIMER_JOB_NAME) /\ tstate[LoopThread] = "dead")

\* Once the loop has seen run_level 0 it calls on_timer no more.
C18_NoFurtherCheck == LoopLeft => LoopLeft'

\* C18: a run_timer_sync loop that runs as an execution registered under
\* its job_name exits once stop_sync has set run_level to 0, starting no
\* on_timer after it has seen run_level 0, and has removed its entry from
\* the registry when it exits.
C18_LoopExits ==
    /\ []C18_ExitedUnregistered
    /\ [][C18_NoFurtherCheck]_vars
    /\ (run_level = 0 /\ LoopAlive) ~> LoopEnded

\* stop_sync has set run_level to 0 while the loop was inside on_timer,
\* and the loop has then exited by deleting its entry.
C18_Witness ==
    /\ ot[LoopCaller].pc = "exited"
    /\ run_level = 0
    /\ stop.pc # "idle"
    /\ error = "There are no tasks scheduled."
    /\ ~InRegistry(TIMER_JOB_NAME)

\* ------------------------------------------------------------------ C19
\* What a step of the run_job_sync thread t leaves alone: the timer
\* registry, the settings document and file, the flags of the instance,
\* every entry of the execution registry and the records the other
\* executions have passed; it passes at most its own record.
JobStepFrame(t) ==
    /\ UNCHANGED <<tm, settings, file, busy, error, run_level>>
    /\ \A name \in DOMAIN threads :
           threads[name] # t
               => (name \in DOMAIN threads' /\ threads'[name] = threads[name])
    /\ DOMAIN threads' \subseteq DOMAIN threads
    /\ \A u \in ThreadIds \ {t} : cb_log'[u] = cb_log[u]
    /\ cb_log'[t] \in {cb_log[t], Append(cb_log[t], [status |-> "done"])}

C19_JobStep ==
    \A t \in ThreadIds :
        (is_alive(t) /\ tstate'[t] # tstate[t]) => JobStepFrame(t)

\* C19: a job execution leaves the timer registry, the settings document
\* and the other entries of the execution registry unchanged; its only
\* output is the result record it passes to progress_cb and returns.
C19_JobTouchesNothing == [][C19_JobStep]_vars

\* An execution has ended after its progress_cb call while the timer
\* registry holds a timer and another execution is registered.
C19_Witness ==
    \E t \in ThreadIds :
        /\ tstate[t] = "dead"
        /\ cb_log[t] = <<[status |-> "done"]>>
        /\ tm.set
        /\ DOMAIN tm.timers # {}
        /\ \E name \in DOMAIN threads :
               threads[name] # t /\ name # tname[t]

\* ------------------------------------------------------------------ C20
\* An on_timer call has been made and has neither returned nor raised.
InFlight(p) ==
    ot[p].pc \in {"L454", "L459", "L460", "L396", "L398", "L465"}

\* C20: busy is released after every periodic check: while no on_timer
\* call is in flight busy is false, also after a call whose run_tasks
\* raised.
C20_BusyReleased ==
    (\A p \in TimerCallers : ~InFlight(p)) => ~busy

\* ------------------------------------------------------------------ C21
\* C21: stop_sync never fails on an entry that another thread of control
\* removes while it polls: every key of its snapshot is still registered
\* when stop_sync looks it up (line 342) or deletes it (line 346), so
\* stop_sync never raises KeyError.
C21_StopSyncNeverRaises == stop.pc # "raised"
====
